---- MODULE Spec2Model ----
(***************************************************************************)
(* Casino Affiliate API (src/main.py, src/database.py, src/schemas.py).    *)
(*                                                                         *)
(* The state is the document store (one sequence of documents per          *)
(* collection, in insertion order), the two bindings of the connection     *)
(* handle (database.db and the name db that main.py imported from it),     *)
(* the environment configuration, the clock, and the last request and      *)
(* its response.  Every HTTP handler is one action.                        *)
(***************************************************************************)
EXTENDS Integers, Sequences, FiniteSets, TLC

VARIABLES
    store,          \* collection name -> sequence of documents
    database_db,    \* the global db of src/database.py
    main_db,        \* the name db of src/main.py (from database import db)
    dbConfigured,   \* DATABASE_URL and DATABASE_NAME are both set
    adminSecret,    \* ADMIN_SECRET of src/main.py (NoneVal when unset)
    now,            \* the clock, in minutes
    req,            \* the last request
    resp            \* its response

vars == <<store, database_db, main_db, dbConfigured, adminSecret, now, req, resp>>

-----------------------------------------------------------------------------
(* Bounds of the model *)

MaxCasinos == 2
MaxReviews == 1
MaxClicks == 1
MaxOffers == 1
MaxAdmins == 3
MaxBlogs == 1
MaxMedia == 1
MaxWritten == 2
MaxTicks == 1
MaxRatings == 3

(* Program constants *)

ACCESS_TOKEN_EXPIRE_MINUTES == 60
DefaultPageSize == 10
MaxPageSize == 50

-----------------------------------------------------------------------------
(* Values *)

NoneVal == "None"
NoHandle == "NoHandle"
Handle == "Handle"
NoId == 0
Absent == -1

Slugs == {"a", "b"}
\* the X-Admin-Secret header of a request: absent, or the configured secret
SecretHeaders == {NoneVal, "s3cret"}
Passwords == {"pw", "bad"}
Roles == {"admin", "editor", "reviewer"}
Emails == {"a@x", "r@x", "i@x", "u@x"}
\* what a request carries: the User-Agent header and the client address
RequestContexts == {[user_agent |-> "ua", host |-> "10.0.0.1"],
                    [user_agent |-> NoneVal, host |-> NoneVal]}
\* what a click payload may itself claim for user_agent and ip
ClickClaims == {[user_agent |-> NoneVal, ip |-> NoneVal],
                [user_agent |-> "spoofed", ip |-> "6.6.6.6"]}
PageInputs == {0, 2}
PageSizeInputs == {0, 50, 51}
EmptyBody == [none |-> TRUE]

Collections == {"casino", "offer", "review", "click", "adminuser", "blogpost", "media"}

MaxDocs(name) ==
    CASE name = "casino" -> MaxCasinos
      [] name = "offer" -> MaxOffers
      [] name = "review" -> MaxReviews
      [] name = "click" -> MaxClicks
      [] name = "adminuser" -> MaxAdmins
      [] name = "blogpost" -> MaxBlogs
      [] name = "media" -> MaxMedia

-----------------------------------------------------------------------------
(* Sequence helpers: the store's find / find_one / update_one *)

\* a document matches a filter dictionary when it holds each of its fields
\* with that value
Matches(doc, filter_dict) ==
    \A k \in DOMAIN filter_dict : k \in DOMAIN doc /\ doc[k] = filter_dict[k]

RECURSIVE FirstIndex(_, _, _)
FirstIndex(seq, filter_dict, i) ==
    IF i > Len(seq) THEN 0
    ELSE IF Matches(seq[i], filter_dict) THEN i
    ELSE FirstIndex(seq, filter_dict, i + 1)

\* cursor of collection.find(filter): the matching documents in storage order
Find(name, filter_dict) == SelectSeq(store[name], LAMBDA d : Matches(d, filter_dict))

\* collection.find_one(filter): index of the first match, 0 when there is none
FindOneIndex(name, filter_dict) == FirstIndex(store[name], filter_dict, 1)

\* collection.insert_one(doc): the document gets the next identifier
InsertOne(name, doc) ==
    [store EXCEPT ![name] = Append(@, [doc EXCEPT !._id = Len(store[name]) + 1])]

InsertedId(name) == Len(store[name]) + 1

\* documents the process has written (admin users may be provisioned)
Written ==
    Len(store["casino"]) + Len(store["offer"]) + Len(store["review"])
    + Len(store["click"]) + Len(store["blogpost"]) + Len(store["media"])

HasRoom(name) == Len(store[name]) < MaxDocs(name) /\ Written < MaxWritten

-----------------------------------------------------------------------------
(* Persistence gateway: src/database.py *)

\* _connect(): the handle it returns; it binds database.db on first success
connect ==
    IF database_db # NoHandle THEN database_db
    ELSE IF dbConfigured THEN Handle
    ELSE NoHandle

\* a gateway call succeeds when _connect() yields a handle and the store call
\* itself does not raise (fail is the request's store-failure input)
GatewayUp(fail) == connect # NoHandle /\ ~fail

\* create_document without lines 55-57: the data is inserted as handed in
create_document_NoStamp(name, data) == InsertOne(name, data)

\* create_document(collection_name, data): stamps both timestamps, inserts
create_document(name, data) ==
    InsertOne(name, [data EXCEPT !.created_at = now, !.updated_at = now])

\* get_documents(collection_name, filter_dict)
get_documents(name, filter_dict) == Find(name, filter_dict)

-----------------------------------------------------------------------------
(* Helpers of src/main.py *)

\* the name db as src/main.py reads it: bound once by the import statement
db == main_db

\* collection(name): 503 when db is None, else the collection
collection(name) ==
    IF db = NoHandle THEN [status |-> 503, name |-> name]
    ELSE [status |-> 200, name |-> name]

NoHash == <<>>
get_password_hash(password) == <<"bcrypt", password>>
verify_password(plain_password, password_hash) ==
    /\ password_hash # NoHash
    /\ password_hash = get_password_hash(plain_password)

\* jwt.encode of the claims plus exp
create_access_token(data, t) ==
    [sig |-> TRUE, sub |-> data.sub, role |-> data.role,
     exp |-> t + ACCESS_TOKEN_EXPIRE_MINUTES]

\* jwt.decode: the signature verifies and the token is not past exp
JwtValid(token, t) == token.sig /\ ~(token.exp < t)

\* tokens a caller may present: signed ones were issued half a TTL before
\* the process started, for each email and with no subject; one is forged
IssuedBefore == 0 - (ACCESS_TOKEN_EXPIRE_MINUTES \div 2)
RoleClaim(sub) == IF sub = "r@x" THEN "reviewer" ELSE IF sub = "i@x" THEN "editor" ELSE "admin"
SignedToken(sub) ==
    create_access_token([sub |-> sub, role |-> RoleClaim(sub)], IssuedBefore)
ForgedToken == [SignedToken("a@x") EXCEPT !.sig = FALSE]
Tokens == {SignedToken(e) : e \in Emails \cup {NoneVal}} \cup {ForgedToken}
\* the callers of the role-gated write endpoints: an admin, a reviewer and
\* one whose token does not verify
CallerTokens == {SignedToken("a@x"), SignedToken("r@x"), ForgedToken}

NoToken == [sig |-> FALSE, sub |-> NoneVal, role |-> NoneVal, exp |-> 0]

AuthFail(code) == [status |-> code, user |-> 0]

\* get_current_user(token): status 200 and the index of the user document,
\* or the status of the HTTPException raised
get_current_user(token) ==
    IF ~JwtValid(token, now) \/ token.sub = NoneVal THEN AuthFail(401)
    ELSE IF collection("adminuser").status # 200 THEN AuthFail(503)
    ELSE LET i == FindOneIndex("adminuser", [email |-> token.sub])
         IN  IF i = 0 THEN AuthFail(401)
             ELSE IF ~store["adminuser"][i].is_active THEN AuthFail(401)
             ELSE [status |-> 200, user |-> i]

\* require_roles(*roles) applied to the request's token
require_roles(roles, token) ==
    LET u == get_current_user(token)
    IN  IF u.status # 200 THEN u
        ELSE IF store["adminuser"][u.user].role \notin roles THEN [u EXCEPT !.status = 403]
        ELSE u

-----------------------------------------------------------------------------
(* Initial state *)

AdminDoc(id, email, role, active) ==
    [_id |-> id, email |-> email, password_hash |-> get_password_hash("pw"),
     role |-> role, is_active |-> active, created_at |-> 0, updated_at |-> 0]

\* admin users provisioned in the store before the process starts
ProvisionedAdmins ==
    << AdminDoc(1, "a@x", "admin", TRUE),
       AdminDoc(2, "r@x", "reviewer", TRUE),
       AdminDoc(3, "i@x", "editor", FALSE) >>

EmptyStore == [c \in Collections |-> <<>>]

Init ==
    /\ dbConfigured \in BOOLEAN
    /\ adminSecret \in {NoneVal, "s3cret"}
    /\ store = [EmptyStore EXCEPT !["adminuser"] = ProvisionedAdmins]
    /\ database_db = NoHandle
    /\ main_db = database_db
    /\ now = 0
    /\ req = [op |-> "start", token |-> NoToken, arg |-> EmptyBody]
    /\ resp = [status |-> 0, id |-> NoId, auth |-> AuthFail(0), body |-> EmptyBody]

Respond(op, token, arg, status, id, auth, body) ==
    /\ req' = [op |-> op, token |-> token, arg |-> arg]
    /\ resp' = [status |-> status, id |-> id, auth |-> auth, body |-> body]

NoAuth == AuthFail(0)

-----------------------------------------------------------------------------
(* Auth endpoints *)

\* POST /api/auth/login
login(username, password) ==
    LET users == Find("adminuser", [email |-> username])
        arg == [username |-> username, password |-> password]
    IN  /\ UNCHANGED <<store, database_db, main_db, dbConfigured, adminSecret, now>>
        /\ IF collection("adminuser").status # 200
           THEN Respond("login", NoToken, arg, 503, NoId, NoAuth, EmptyBody)
           ELSE IF users = <<>>
           THEN Respond("login", NoToken, arg, 401, NoId, NoAuth, EmptyBody)
           ELSE IF ~verify_password(password, users[1].password_hash)
           THEN Respond("login", NoToken, arg, 401, NoId, NoAuth, EmptyBody)
           ELSE Respond("login", NoToken, arg, 200, NoId, NoAuth,
                        [access_token |->
                            create_access_token([sub |-> users[1].email,
                                                 role |-> users[1].role], now)])

\* POST /api/auth/seed-admin
seed_admin(email, password, x_admin_secret) ==
    LET arg == [email |-> email, password |-> password, x_admin_secret |-> x_admin_secret]
        doc == [_id |-> NoId, email |-> email,
                password_hash |-> get_password_hash(password),
                role |-> "admin", is_active |-> TRUE,
                created_at |-> now, updated_at |-> Absent]
    IN  /\ UNCHANGED <<database_db, main_db, dbConfigured, adminSecret, now>>
        /\ IF adminSecret # NoneVal /\ x_admin_secret # adminSecret
           THEN /\ Respond("seed_admin", NoToken, arg, 401, NoId, NoAuth, EmptyBody)
                /\ UNCHANGED store
           ELSE IF collection("adminuser").status # 200
           THEN /\ Respond("seed_admin", NoToken, arg, 503, NoId, NoAuth, EmptyBody)
                /\ UNCHANGED store
           ELSE IF FindOneIndex("adminuser", [email |-> email]) # 0
           THEN /\ Respond("seed_admin", NoToken, arg, 200, NoId, NoAuth,
                           [status |-> "exists"])
                /\ UNCHANGED store
           ELSE /\ HasRoom("adminuser")
                /\ store' = InsertOne("adminuser", doc)
                /\ Respond("seed_admin", NoToken, arg, 200, InsertedId("adminuser"),
                           NoAuth, [status |-> "created"])

-----------------------------------------------------------------------------
(* Python values of a rating field, and int() of them *)

PyInt(n) == [t |-> "int", v |-> n]
PyFloat(tenths) == [t |-> "float", v |-> tenths]    \* the float tenths / 10
PyStr(n) == [t |-> "str", v |-> n]                  \* the decimal literal of n
PyText == [t |-> "text", v |-> 0]                   \* a non-numeric string
PyNone == [t |-> "none", v |-> 0]                   \* an explicit null
PyMissing == [t |-> "missing", v |-> 0]             \* the key is absent

Trunc(tenths) == IF tenths >= 0 THEN tenths \div 10 ELSE 0 - ((0 - tenths) \div 10)

\* int(r.get("rating", 0)): ok is FALSE when int() raises
int_rating(x) ==
    CASE x.t = "int" -> [ok |-> TRUE, v |-> x.v]
      [] x.t = "float" -> [ok |-> TRUE, v |-> Trunc(x.v)]
      [] x.t = "str" -> [ok |-> TRUE, v |-> x.v]
      [] x.t = "missing" -> [ok |-> TRUE, v |-> 0]
      [] OTHER -> [ok |-> FALSE, v |-> 0]

Stars == 1 .. 5

\* the loop of get_casino: breakdown[str(int(rating))] += 1, any exception
\* (int() raising, or a key that is not "1".."5") skips the review
RECURSIVE Tally(_, _)
Tally(ratings, breakdown) ==
    IF ratings = <<>> THEN breakdown
    ELSE LET k == int_rating(Head(ratings))
         IN  IF k.ok /\ k.v \in Stars
             THEN Tally(Tail(ratings), [breakdown EXCEPT ![k.v] = @ + 1])
             ELSE Tally(Tail(ratings), breakdown)

Breakdown(ratings) == Tally(ratings, [s \in Stars |-> 0])

RECURSIVE SumOver(_, _)
SumOver(f, S) ==
    IF S = {} THEN 0
    ELSE LET x == CHOOSE y \in S : TRUE IN f[x] + SumOver(f, S \ {x})

\* round(num / den, 2) in hundredths; a tie goes to the even hundredth
Round2(num, den) ==
    LET q == (100 * num) \div den
        r == (100 * num) % den
    IN  IF 2 * r > den THEN q + 1
        ELSE IF 2 * r < den THEN q
        ELSE IF q % 2 = 0 THEN q ELSE q + 1

\* the ratings object of get_casino's response; average is in hundredths
Ratings(ratings) ==
    LET breakdown == Breakdown(ratings)
        total_reviews == SumOver(breakdown, Stars)
        weighted == SumOver([s \in Stars |-> s * breakdown[s]], Stars)
    IN  [breakdown |-> breakdown,
         total |-> total_reviews,
         average |-> IF total_reviews # 0
                     THEN [none |-> FALSE, hundredths |-> Round2(weighted, total_reviews)]
                     ELSE [none |-> TRUE, hundredths |-> 0]]

RECURSIVE MapRating(_)
MapRating(docs) ==
    IF docs = <<>> THEN <<>> ELSE <<Head(docs).rating>> \o MapRating(Tail(docs))

-----------------------------------------------------------------------------
(* Public content endpoints *)

NormPage(page) == IF page < 1 THEN 1 ELSE page
NormPageSize(page_size) ==
    IF page_size < 1 \/ page_size > MaxPageSize THEN DefaultPageSize ELSE page_size
Pages(total, page_size) == (total + page_size - 1) \div page_size

\* cursor.skip(n).limit(m)
SkipLimit(docs, n, m) ==
    SubSeq(docs, n + 1, IF n + m < Len(docs) THEN n + m ELSE Len(docs))

RECURSIVE MapSlug(_)
MapSlug(docs) ==
    IF docs = <<>> THEN <<>> ELSE <<Head(docs).slug>> \o MapSlug(Tail(docs))

Listing(docs, page, page_size) ==
    [items |-> MapSlug(SkipLimit(docs, (page - 1) * page_size, page_size)),
     page |-> page, page_size |-> page_size,
     total |-> Len(docs), pages |-> Pages(Len(docs), page_size)]

\* GET /api/casinos; the name filter, the country filter and the sort key
\* select and order within the published casinos and are not modelled
list_casinos(page_in, page_size_in, fail) ==
    LET page == NormPage(page_in)
        page_size == NormPageSize(page_size_in)
        arg == [page |-> page_in, page_size |-> page_size_in, fail |-> fail]
    IN  /\ UNCHANGED <<store, database_db, main_db, dbConfigured, adminSecret, now>>
        /\ IF collection("casino").status # 200 \/ fail
           THEN Respond("list_casinos", NoToken, arg, 200, NoId, NoAuth,
                        [items |-> <<>>, page |-> page, page_size |-> page_size,
                         total |-> 0, pages |-> 0])
           ELSE Respond("list_casinos", NoToken, arg, 200, NoId, NoAuth,
                        Listing(Find("casino", [is_published |-> TRUE]),
                                page, page_size))

\* GET /api/casinos/{slug}
get_casino(slug, fail) ==
    LET docs == get_documents("casino", [slug |-> slug])
        offers == get_documents("offer", [casino_slug |-> slug])
        reviews == get_documents("review", [casino_slug |-> slug])
        arg == [slug |-> slug, fail |-> fail]
    IN  /\ UNCHANGED <<store, main_db, dbConfigured, adminSecret, now>>
        /\ database_db' = connect
        /\ IF ~GatewayUp(fail) \/ docs = <<>>
           THEN Respond("get_casino", NoToken, arg, 404, NoId, NoAuth, EmptyBody)
           ELSE Respond("get_casino", NoToken, arg, 200, docs[1]._id, NoAuth,
                        [casino |-> docs[1].slug, offers |-> Len(offers),
                         reviews |-> Len(reviews),
                         ratings |-> Ratings(MapRating(reviews))])

\* NewReview (rating: int) as FastAPI validates the body: an int passes, a
\* float with no fractional part is coerced, anything else is a 422
NewReviewValid(rating) ==
    \/ rating.t = "int"
    \/ rating.t = "float" /\ rating.v % 10 = 0
NewReviewRating(rating) == int_rating(rating).v

\* Review.rating with the lower bound left out
ReviewValid_NoLowerBound(rating) == rating <= 5

\* Review.rating: Field(..., ge=1, le=5)
ReviewValid(rating) == rating >= 1 /\ rating <= 5

RatingInputs == {PyInt(0), PyInt(1), PyInt(5), PyInt(6), PyFloat(45)}

\* POST /api/reviews
submit_review(casino_slug, rating, fail) ==
    LET arg == [casino_slug |-> casino_slug, rating |-> rating, fail |-> fail]
        review == [_id |-> NoId, casino_slug |-> casino_slug,
                   rating |-> PyInt(NewReviewRating(rating)), status |-> "approved",
                   created_at |-> Absent, updated_at |-> Absent]
    IN  /\ UNCHANGED <<main_db, dbConfigured, adminSecret, now>>
        /\ IF ~NewReviewValid(rating)
           THEN /\ Respond("submit_review", NoToken, arg, 422, NoId, NoAuth, EmptyBody)
                /\ UNCHANGED <<store, database_db>>
           ELSE IF ~ReviewValid(NewReviewRating(rating))
           THEN /\ Respond("submit_review", NoToken, arg, 500, NoId, NoAuth, EmptyBody)
                /\ UNCHANGED <<store, database_db>>
           ELSE IF ~GatewayUp(fail)
           THEN /\ Respond("submit_review", NoToken, arg, 500, NoId, NoAuth, EmptyBody)
                /\ database_db' = connect
                /\ UNCHANGED store
           ELSE /\ HasRoom("review")
                /\ store' = create_document("review", review)
                /\ database_db' = connect
                /\ Respond("submit_review", NoToken, arg, 200, InsertedId("review"),
                           NoAuth, EmptyBody)

\* POST /api/offers; the legacy-secret test (user is None) never holds once
\* require_roles has returned a user, so the header is not an input
create_offer(casino_slug, token, fail) ==
    LET auth == require_roles({"admin", "editor"}, token)
        casino_docs == get_documents("casino", [slug |-> casino_slug])
        arg == [casino_slug |-> casino_slug, fail |-> fail]
        offer == [_id |-> NoId, casino_slug |-> casino_slug,
                  created_at |-> Absent, updated_at |-> Absent]
    IN  /\ UNCHANGED <<main_db, dbConfigured, adminSecret, now>>
        /\ IF auth.status # 200
           THEN /\ Respond("create_offer", token, arg, auth.status, NoId, auth, EmptyBody)
                /\ UNCHANGED <<store, database_db>>
           ELSE IF ~GatewayUp(fail)
           THEN /\ Respond("create_offer", token, arg, 500, NoId, auth, EmptyBody)
                /\ database_db' = connect
                /\ UNCHANGED store
           ELSE IF casino_docs = <<>>
           THEN /\ Respond("create_offer", token, arg, 400, NoId, auth, EmptyBody)
                /\ database_db' = connect
                /\ UNCHANGED store
           ELSE /\ HasRoom("offer")
                /\ store' = create_document("offer", offer)
                /\ database_db' = connect
                /\ Respond("create_offer", token, arg, 200, InsertedId("offer"),
                           auth, EmptyBody)

\* track_click with the two overwriting assignments left out
ClickData_NoOverwrite(casino_slug, claimed, request) ==
    [_id |-> NoId, casino_slug |-> casino_slug,
     user_agent |-> claimed.user_agent, ip |-> claimed.ip,
     created_at |-> Absent, updated_at |-> Absent]

\* payload.model_dump() with user_agent and ip overwritten from the request
ClickData(casino_slug, claimed, request) ==
    [[_id |-> NoId, casino_slug |-> casino_slug,
      user_agent |-> claimed.user_agent, ip |-> claimed.ip,
      created_at |-> Absent, updated_at |-> Absent]
     EXCEPT !.user_agent = request.user_agent, !.ip = request.host]

\* POST /api/click
track_click(casino_slug, claimed, request, fail) ==
    LET arg == [casino_slug |-> casino_slug, claimed |-> claimed,
                request |-> request, fail |-> fail]
        data == ClickData(casino_slug, claimed, request)
    IN  /\ UNCHANGED <<main_db, dbConfigured, adminSecret, now>>
        /\ database_db' = connect
        /\ IF GatewayUp(fail)
           THEN /\ HasRoom("click")
                /\ store' = create_document("click", data)
                /\ Respond("track_click", NoToken, arg, 200, InsertedId("click"),
                           NoAuth, [status |-> "ok"])
           ELSE /\ UNCHANGED store
                /\ Respond("track_click", NoToken, arg, 200, NoId, NoAuth,
                           [status |-> "ok"])

-----------------------------------------------------------------------------
(* Admin-secured CRUD endpoints *)

CasinoPayloads == {[slug |-> s, is_published |-> TRUE] : s \in Slugs}

\* Casino(**payload.model_dump())
CasinoDoc(payload) ==
    [_id |-> NoId, slug |-> payload.slug, is_published |-> payload.is_published,
     created_at |-> Absent, updated_at |-> Absent]

\* update_one(filter, {"$set": fields}) on the first matching document
UpdateOne(name, i, fields) ==
    [store EXCEPT ![name][i] =
        [k \in DOMAIN @ |-> IF k \in DOMAIN fields THEN fields[k] ELSE @[k]]]

\* POST /api/admin/casinos
admin_create_casino(payload, token) ==
    LET auth == require_roles({"admin", "editor"}, token)
        arg == [payload |-> payload]
    IN  /\ UNCHANGED <<main_db, dbConfigured, adminSecret, now>>
        /\ IF auth.status # 200
           THEN /\ Respond("admin_create_casino", token, arg, auth.status, NoId, auth, EmptyBody)
                /\ UNCHANGED <<store, database_db>>
           ELSE IF collection("casino").status # 200
           THEN /\ Respond("admin_create_casino", token, arg, 503, NoId, auth, EmptyBody)
                /\ UNCHANGED <<store, database_db>>
           ELSE IF FindOneIndex("casino", [slug |-> payload.slug]) # 0
           THEN /\ Respond("admin_create_casino", token, arg, 400, NoId, auth, EmptyBody)
                /\ UNCHANGED <<store, database_db>>
           ELSE IF ~GatewayUp(FALSE)
           THEN /\ Respond("admin_create_casino", token, arg, 500, NoId, auth, EmptyBody)
                /\ database_db' = connect
                /\ UNCHANGED store
           ELSE /\ HasRoom("casino")
                /\ store' = create_document("casino", CasinoDoc(payload))
                /\ database_db' = connect
                /\ Respond("admin_create_casino", token, arg, 200, InsertedId("casino"),
                           auth, EmptyBody)

\* PUT /api/admin/casinos/{slug}
admin_update_casino(slug, payload, token) ==
    LET auth == require_roles({"admin", "editor"}, token)
        arg == [slug |-> slug, payload |-> payload]
        i == FindOneIndex("casino", [slug |-> slug])
    IN  /\ UNCHANGED <<database_db, main_db, dbConfigured, adminSecret, now>>
        /\ IF auth.status # 200
           THEN /\ Respond("admin_update_casino", token, arg, auth.status, NoId, auth, EmptyBody)
                /\ UNCHANGED store
           ELSE IF collection("casino").status # 200
           THEN /\ Respond("admin_update_casino", token, arg, 503, NoId, auth, EmptyBody)
                /\ UNCHANGED store
           ELSE IF i = 0
           THEN /\ Respond("admin_update_casino", token, arg, 404, NoId, auth, EmptyBody)
                /\ UNCHANGED store
           ELSE /\ store' = UpdateOne("casino", i, payload)
                /\ Respond("admin_update_casino", token, arg, 200, NoId, auth,
                           [updated |-> TRUE])

\* ReviewUpdate bodies: rating is Optional[int] with no range, PyNone is null
ReviewUpdates == {[rating |-> PyNone, status |-> "rejected"],
                  [rating |-> PyInt(6), status |-> NoneVal],
                  [rating |-> PyInt(3), status |-> NoneVal]}

\* review ids of a request: Malformed is a string ObjectId() rejects
Malformed == 0 - 1
ReviewIds == {Malformed} \cup (1 .. MaxReviews)

\* {k: v for k, v in payload.model_dump().items() if v is not None}
NonNullFields(payload) ==
    LET keys == {k \in DOMAIN payload :
                    IF k = "rating" THEN payload[k] # PyNone ELSE payload[k] # NoneVal}
    IN  [k \in keys |-> payload[k]]

\* PUT /api/admin/reviews/{review_id}
admin_update_review(review_id, payload, token) ==
    LET auth == require_roles({"admin", "reviewer", "editor"}, token)
        arg == [review_id |-> review_id, payload |-> payload]
        i == FindOneIndex("review", [_id |-> review_id])
    IN  /\ UNCHANGED <<database_db, main_db, dbConfigured, adminSecret, now>>
        /\ IF auth.status # 200
           THEN /\ Respond("admin_update_review", token, arg, auth.status, NoId, auth, EmptyBody)
                /\ UNCHANGED store
           ELSE IF review_id = Malformed
           THEN /\ Respond("admin_update_review", token, arg, 400, NoId, auth, EmptyBody)
                /\ UNCHANGED store
           ELSE IF collection("review").status # 200
           THEN /\ Respond("admin_update_review", token, arg, 503, NoId, auth, EmptyBody)
                /\ UNCHANGED store
           ELSE IF i = 0
           THEN /\ Respond("admin_update_review", token, arg, 404, NoId, auth, EmptyBody)
                /\ UNCHANGED store
           ELSE /\ store' = UpdateOne("review", i, NonNullFields(payload))
                /\ Respond("admin_update_review", token, arg, 200, NoId, auth,
                           [updated |-> TRUE])

\* BlogUpsert bodies; published_at Absent is null, author_email is not sent
BlogPayloads ==
    {[slug |-> "a", status |-> st, published_at |-> Absent, author_email |-> NoneVal] :
        st \in {"draft", "published"}}

\* POST /api/admin/blogs
admin_create_blog(payload, token) ==
    LET auth == require_roles({"admin", "editor"}, token)
        arg == [payload |-> payload]
        doc == [_id |-> NoId, slug |-> payload.slug, status |-> payload.status,
                published_at |-> IF payload.status = "published"
                                    /\ payload.published_at = Absent
                                 THEN now ELSE payload.published_at,
                author_email |-> IF auth.user = 0 THEN NoneVal
                                 ELSE store["adminuser"][auth.user].email,
                created_at |-> Absent, updated_at |-> Absent]
    IN  /\ UNCHANGED <<database_db, main_db, dbConfigured, adminSecret, now>>
        /\ IF auth.status # 200
           THEN /\ Respond("admin_create_blog", token, arg, auth.status, NoId, auth, EmptyBody)
                /\ UNCHANGED store
           ELSE IF collection("blogpost").status # 200
           THEN /\ Respond("admin_create_blog", token, arg, 503, NoId, auth, EmptyBody)
                /\ UNCHANGED store
           ELSE IF FindOneIndex("blogpost", [slug |-> payload.slug]) # 0
           THEN /\ Respond("admin_create_blog", token, arg, 400, NoId, auth, EmptyBody)
                /\ UNCHANGED store
           ELSE /\ HasRoom("blogpost")
                /\ store' = InsertOne("blogpost", doc)
                /\ Respond("admin_create_blog", token, arg, 200, InsertedId("blogpost"),
                           auth, EmptyBody)

\* PUT /api/admin/blogs/{slug}
admin_update_blog(slug, payload, token) ==
    LET auth == require_roles({"admin", "editor"}, token)
        arg == [slug |-> slug, payload |-> payload]
        i == FindOneIndex("blogpost", [slug |-> slug])
    IN  /\ UNCHANGED <<database_db, main_db, dbConfigured, adminSecret, now>>
        /\ IF auth.status # 200
           THEN /\ Respond("admin_update_blog", token, arg, auth.status, NoId, auth, EmptyBody)
                /\ UNCHANGED store
           ELSE IF collection("blogpost").status # 200
           THEN /\ Respond("admin_update_blog", token, arg, 503, NoId, auth, EmptyBody)
                /\ UNCHANGED store
           ELSE IF i = 0
           THEN /\ Respond("admin_update_blog", token, arg, 404, NoId, auth, EmptyBody)
                /\ UNCHANGED store
           ELSE /\ store' = UpdateOne("blogpost", i, payload)
                /\ Respond("admin_update_blog", token, arg, 200, NoId, auth,
                           [updated |-> TRUE])

\* GET /api/blogs; the tag filter selects within the published posts
list_blogs(page_in, page_size_in) ==
    LET page == NormPage(page_in)
        page_size == NormPageSize(page_size_in)
        arg == [page |-> page_in, page_size |-> page_size_in]
    IN  /\ UNCHANGED <<store, database_db, main_db, dbConfigured, adminSecret, now>>
        /\ IF collection("blogpost").status # 200
           THEN Respond("list_blogs", NoToken, arg, 503, NoId, NoAuth, EmptyBody)
           ELSE Respond("list_blogs", NoToken, arg, 200, NoId, NoAuth,
                        Listing(Find("blogpost", [status |-> "published"]),
                                page, page_size))

\* GET /api/blogs/{slug}
get_blog(slug) ==
    LET i == FindOneIndex("blogpost", [slug |-> slug, status |-> "published"])
        arg == [slug |-> slug]
    IN  /\ UNCHANGED <<store, database_db, main_db, dbConfigured, adminSecret, now>>
        /\ IF collection("blogpost").status # 200
           THEN Respond("get_blog", NoToken, arg, 503, NoId, NoAuth, EmptyBody)
           ELSE IF i = 0
           THEN Respond("get_blog", NoToken, arg, 404, NoId, NoAuth, EmptyBody)
           ELSE Respond("get_blog", NoToken, arg, 200, i, NoAuth, EmptyBody)

\* POST /api/admin/media: metadata only, created_at set by the handler
upload_media(filename, token) ==
    LET auth == require_roles({"admin", "editor"}, token)
        arg == [filename |-> filename]
        doc == [_id |-> NoId, filename |-> filename, storage |-> "gridfs",
                created_at |-> now, updated_at |-> Absent]
    IN  /\ UNCHANGED <<database_db, main_db, dbConfigured, adminSecret, now>>
        /\ IF auth.status # 200
           THEN /\ Respond("upload_media", token, arg, auth.status, NoId, auth, EmptyBody)
                /\ UNCHANGED store
           ELSE IF collection("media").status # 200
           THEN /\ Respond("upload_media", token, arg, 503, NoId, auth, EmptyBody)
                /\ UNCHANGED store
           ELSE /\ HasRoom("media")
                /\ store' = InsertOne("media", doc)
                /\ Respond("upload_media", token, arg, 200, InsertedId("media"),
                           auth, EmptyBody)

\* POST /api/seed/casino: the shared secret is the only guard, and only
\* when it is configured; no lookup of the slug precedes the insert
seed_casino(payload, x_admin_secret, fail) ==
    LET arg == [payload |-> payload, x_admin_secret |-> x_admin_secret, fail |-> fail]
    IN  /\ UNCHANGED <<main_db, dbConfigured, adminSecret, now>>
        /\ IF adminSecret # NoneVal /\ x_admin_secret # adminSecret
           THEN /\ Respond("seed_casino", NoToken, arg, 401, NoId, NoAuth, EmptyBody)
                /\ UNCHANGED <<store, database_db>>
           ELSE IF ~GatewayUp(fail)
           THEN /\ Respond("seed_casino", NoToken, arg, 500, NoId, NoAuth, EmptyBody)
                /\ database_db' = connect
                /\ UNCHANGED store
           ELSE /\ HasRoom("casino")
                /\ store' = create_document("casino", CasinoDoc(payload))
                /\ database_db' = connect
                /\ Respond("seed_casino", NoToken, arg, 200, InsertedId("casino"),
                           NoAuth, EmptyBody)

\* GET /test
test_database ==
    /\ UNCHANGED <<store, database_db, main_db, dbConfigured, adminSecret, now>>
    /\ Respond("test_database", NoToken, EmptyBody, 200, NoId, NoAuth,
               [database |-> IF db = NoHandle THEN "not initialized" ELSE "connected"])

\* time passes
Tick ==
    /\ now < MaxTicks * ACCESS_TOKEN_EXPIRE_MINUTES
    /\ now' = now + ACCESS_TOKEN_EXPIRE_MINUTES
    /\ UNCHANGED <<store, database_db, main_db, dbConfigured, adminSecret, req, resp>>

-----------------------------------------------------------------------------

Next ==
    \/ \E p \in CasinoPayloads, h \in SecretHeaders : seed_casino(p, h, FALSE)
    \/ seed_casino([slug |-> "a", is_published |-> TRUE], "s3cret", TRUE)
    \/ \E u \in {"a@x", "u@x"}, p \in Passwords : login(u, p)
    \/ \E h \in SecretHeaders : seed_admin("a@x", "pw", h)
    \/ \E p \in PageInputs, ps \in PageSizeInputs : list_casinos(p, ps, FALSE)
    \/ list_casinos(1, DefaultPageSize, TRUE)
    \/ \E s \in Slugs, f \in BOOLEAN : get_casino(s, f)
    \/ \E r \in RatingInputs : submit_review("a", r, FALSE)
    \/ submit_review("b", PyInt(5), TRUE)
    \/ \E t \in CallerTokens : create_offer("a", t, FALSE)
    \/ \E c \in ClickClaims, r \in RequestContexts, f \in BOOLEAN :
          track_click("a", c, r, f)
    \/ \E t \in CallerTokens : admin_create_casino([slug |-> "a", is_published |-> TRUE], t)
    \/ \E t \in CallerTokens : admin_update_casino("a", [slug |-> "b", is_published |-> TRUE], t)
    \/ \E p \in ReviewUpdates : admin_update_review(1, p, SignedToken("a@x"))
    \/ admin_update_review(1, [rating |-> PyInt(6), status |-> NoneVal], ForgedToken)
    \/ admin_update_review(Malformed, [rating |-> PyInt(3), status |-> NoneVal],
                           SignedToken("r@x"))
    \/ \E p \in BlogPayloads, t \in {SignedToken("a@x"), SignedToken("r@x")} :
          admin_create_blog(p, t)
    \/ \E t \in CallerTokens :
          admin_update_blog("a", [slug |-> "a", status |-> "published",
                                  published_at |-> Absent, author_email |-> NoneVal], t)
    \/ \E p \in PageInputs : list_blogs(p, 2)
    \/ get_blog("a")
    \/ \E t \in Tokens : upload_media("f.png", t)
    \/ test_database
    \/ Tick

Spec == Init /\ [][Next]_vars

-----------------------------------------------------------------------------
(* get_casino over review documents however they came into the store: the  *)
(* review collection is drawn from documents whose rating field holds any  *)
(* of the Python values below, and the only operation is get_casino.       *)

RatingValues ==
    {PyInt(0), PyInt(1), PyInt(4), PyInt(5), PyInt(6),
     PyFloat(47), PyNone, PyMissing, PyText}

ReviewDoc(slug, rating) ==
    [_id |-> NoId, casino_slug |-> slug, rating |-> rating, status |-> "approved",
     created_at |-> 0, updated_at |-> 0]

StoredReviews ==
    UNION {[1 .. n -> {ReviewDoc(sl, r) : sl \in Slugs, r \in RatingValues}] :
              n \in 0 .. MaxRatings}

InitRatings ==
    /\ dbConfigured = TRUE
    /\ adminSecret = NoneVal
    /\ \E rs \in StoredReviews :
          store = [EmptyStore EXCEPT
                      !["casino"] = <<[CasinoDoc([slug |-> "a", is_published |-> TRUE])
                                       EXCEPT !._id = 1, !.created_at = 0, !.updated_at = 0]>>,
                      !["review"] = [i \in DOMAIN rs |-> [rs[i] EXCEPT !._id = i]]]
    /\ database_db = NoHandle
    /\ main_db = database_db
    /\ now = 0
    /\ req = [op |-> "start", token |-> NoToken, arg |-> EmptyBody]
    /\ resp = [status |-> 0, id |-> NoId, auth |-> NoAuth, body |-> EmptyBody]

NextRatings == \E s \in Slugs, f \in BOOLEAN : get_casino(s, f)

SpecRatings == InitRatings /\ [][NextRatings]_vars

-----------------------------------------------------------------------------
(* Properties.  A handler step is a step that leaves the clock alone; its  *)
(* request is req' and its response resp'.                                 *)

HandlerStep == now' = now

MinOf(S) == CHOOSE i \in S : \A j \in S : i <= j

\* the admin user a token speaks for: the token is signed, not past its
\* expiry, carries a subject, and the first admin user with that email is
\* active; 0 when there is none
CallerUser(token) ==
    LET matches == {i \in DOMAIN store["adminuser"] :
                        store["adminuser"][i].email = token.sub}
    IN  IF token.sig /\ token.exp >= now /\ token.sub # NoneVal /\ matches # {}
        THEN IF store["adminuser"][MinOf(matches)].is_active THEN MinOf(matches) ELSE 0
        ELSE 0

HasRole(token, roles) ==
    /\ CallerUser(token) # 0
    /\ store["adminuser"][CallerUser(token)].role \in roles

TokenOps == {"create_offer", "admin_create_casino", "admin_update_casino",
             "admin_update_review", "admin_create_blog", "admin_update_blog",
             "upload_media"}

AllowedRoles(op) ==
    IF op = "admin_update_review" THEN {"admin", "reviewer", "editor"}
    ELSE {"admin", "editor"}

SlugTaken(name, slug) == \E i \in DOMAIN store[name] : store[name][i].slug = slug

\* the collection grew by exactly one document, appended
OneInserted(name) ==
    /\ Len(store'[name]) = Len(store[name]) + 1
    /\ SubSeq(store'[name], 1, Len(store[name])) = store[name]

Newest(name) == store'[name][Len(store'[name])]

\* C1: admin casino create by a caller holding admin or editor: when a casino
\* with the payload's slug exists the response is 409 Conflict and the casino
\* collection is unchanged; otherwise exactly one casino with that slug is
\* inserted.
C1_CasinoCreate ==
    [][ (HandlerStep /\ req'.op = "admin_create_casino" /\ dbConfigured
            /\ HasRole(req'.token, {"admin", "editor"}))
        => IF SlugTaken("casino", req'.arg.payload.slug)
           THEN resp'.status = 409 /\ store'["casino"] = store["casino"]
           ELSE OneInserted("casino")
                /\ Newest("casino").slug = req'.arg.payload.slug ]_vars

\* C2: in every reachable state no two casinos share a slug and no two blog
\* posts share a slug.
C2_UniqueSlugs ==
    \A name \in {"casino", "blogpost"} :
        \A i, j \in DOMAIN store[name] :
            i # j => store[name][i].slug # store[name][j].slug

\* C3: get_current_user returns the user exactly when the token is signed,
\* unexpired, carries a subject and that subject is an active admin user;
\* in every other case it answers 401 Unauthorized.
C3_Authenticate ==
    [][ (HandlerStep /\ req'.op \in TokenOps /\ dbConfigured)
        => IF CallerUser(req'.token) # 0
           THEN resp'.auth.status \in {200, 403}
                /\ resp'.auth.user = CallerUser(req'.token)
           ELSE resp'.auth.status = 401 ]_vars

ReviewModified ==
    \E i \in DOMAIN store["review"] :
        i \notin DOMAIN store'["review"] \/ store'["review"][i] # store["review"][i]

ProtectedChange ==
    \/ store'["casino"] # store["casino"]
    \/ store'["blogpost"] # store["blogpost"]
    \/ store'["media"] # store["media"]
    \/ ReviewModified

\* C4: no step creates or modifies a casino, blog post or media record, or
\* modifies a review, unless its caller is an authenticated admin user whose
\* stored role is allowed for the operation; an authenticated caller whose
\* role is not allowed gets 403 Forbidden and the store is unchanged.
C4_RoleGate ==
    [][ HandlerStep
        => /\ ProtectedChange => HasRole(req'.token, AllowedRoles(req'.op))
           /\ (req'.op \in TokenOps /\ dbConfigured /\ CallerUser(req'.token) # 0
                  /\ ~HasRole(req'.token, AllowedRoles(req'.op)))
              => resp'.status = 403 /\ store' = store ]_vars

\* C5: login answers 401 and issues no token when no admin user has the
\* email or the password does not verify against the first match's hash;
\* otherwise it returns a token whose subject is the stored email and whose
\* role claim is the stored role.
C5_Login ==
    [][ (HandlerStep /\ req'.op = "login" /\ dbConfigured)
        => LET matches == {i \in DOMAIN store["adminuser"] :
                              store["adminuser"][i].email = req'.arg.username}
           IN  IF matches = {}
                  \/ store["adminuser"][MinOf(matches)].password_hash
                       # get_password_hash(req'.arg.password)
               THEN resp'.status = 401 /\ "access_token" \notin DOMAIN resp'.body
               ELSE /\ resp'.status = 200
                    /\ resp'.body.access_token.sub = store["adminuser"][MinOf(matches)].email
                    /\ resp'.body.access_token.role = store["adminuser"][MinOf(matches)].role ]_vars

MaxOf(a, b) == IF a >= b THEN a ELSE b

Clamp(x, lo, hi) == IF x < lo THEN lo ELSE IF x > hi THEN hi ELSE x

\* ceil(total / size): the least n with n * size >= total
Ceil(total, size) == MinOf({n \in 0 .. total : n * size >= total})

MatchingTotal(op) ==
    IF op = "list_casinos"
    THEN Cardinality({i \in DOMAIN store["casino"] : store["casino"][i].is_published})
    ELSE Cardinality({i \in DOMAIN store["blogpost"] :
                         store["blogpost"][i].status = "published"})

\* C6: for every page and page_size passed to the casino or blog listing the
\* reported page is max(page, 1), the reported page size is the requested one
\* clamped into [1, 50], and the reported pages is ceil(total / page size)
\* with total the number of matching records.
C6_Pagination ==
    (req.op \in {"list_casinos", "list_blogs"} /\ dbConfigured
        /\ ~(req.op = "list_casinos" /\ req.arg.fail))
    => /\ resp.status = 200
       /\ resp.body.page = MaxOf(req.arg.page, 1)
       /\ resp.body.page_size = Clamp(req.arg.page_size, 1, 50)
       /\ resp.body.pages = Ceil(MatchingTotal(req.op), resp.body.page_size)

\* the reviews of the requested casino whose rating is the integer s
CountOf(s) ==
    Cardinality({i \in DOMAIN store["review"] :
                    /\ store["review"][i].casino_slug = req.arg.slug
                    /\ store["review"][i].rating = PyInt(s)})

\* C7: get_casino for an existing slug reports, for each star value s, the
\* number of that casino's reviews whose rating is the integer s, their sum
\* as total, and as average their mean to the nearest hundredth (null when
\* total is 0); a review whose rating is no integer in 1..5 is counted in no
\* bucket and never makes the operation fail.
C7_RatingBreakdown ==
    (req.op = "get_casino" /\ ~req.arg.fail /\ SlugTaken("casino", req.arg.slug))
    => /\ resp.status = 200
       /\ \A s \in Stars : resp.body.ratings.breakdown[s] = CountOf(s)
       /\ LET total == SumOver([s \in Stars |-> CountOf(s)], Stars)
              sum == SumOver([s \in Stars |-> s * CountOf(s)], Stars)
              avg == resp.body.ratings.average
          IN  /\ resp.body.ratings.total = total
              /\ avg.none <=> total = 0
              /\ total # 0 =>
                    /\ 2 * (100 * sum - avg.hundredths * total) <= total
                    /\ 2 * (avg.hundredths * total - 100 * sum) <= total

\* a rating, in tenths
Tenths(rating) == IF rating.t = "float" THEN rating.v ELSE 10 * rating.v

\* C8: every review record holds a rating that is an integer in 1..5, and a
\* submitted review whose rating is outside 1..5 is rejected with nothing
\* persisted.
C8_RatingsInRange ==
    [][ HandlerStep
        => /\ \A i \in DOMAIN store'["review"] :
                 /\ store'["review"][i].rating.t = "int"
                 /\ store'["review"][i].rating.v \in 1 .. 5
           /\ (req'.op = "submit_review"
                  /\ (Tenths(req'.arg.rating) < 10 \/ Tenths(req'.arg.rating) > 50))
              => resp'.status # 200 /\ store' = store ]_vars

\* C8 witness: a review is stored and a later submission rated 6 was refused
C8_Witness ==
    /\ req.op = "submit_review" /\ req.arg.rating = PyInt(6)
    /\ resp.status = 500
    /\ Len(store["review"]) = 1

\* C9: list_casinos and track_click never answer with an error; when the
\* store is unavailable or the store call fails list_casinos returns no
\* items, total 0 and pages 0 and track_click returns status ok with a null
\* id; when the store is available track_click persists the click with
\* user_agent and ip taken from the request, whatever the payload claimed.
C9_SwallowStorageErrors ==
    [][ HandlerStep
        => /\ req'.op = "list_casinos"
              => /\ resp'.status = 200
                 /\ (~dbConfigured \/ req'.arg.fail)
                    => /\ resp'.body.items = <<>>
                       /\ resp'.body.total = 0
                       /\ resp'.body.pages = 0
           /\ req'.op = "track_click"
              => /\ resp'.status = 200
                 /\ resp'.body.status = "ok"
                 /\ IF ~dbConfigured \/ req'.arg.fail
                    THEN resp'.id = NoId /\ store' = store
                    ELSE /\ OneInserted("click")
                         /\ Newest("click").casino_slug = req'.arg.casino_slug
                         /\ Newest("click").user_agent = req'.arg.request.user_agent
                         /\ Newest("click").ip = req'.arg.request.host
                         /\ resp'.id = Newest("click")._id ]_vars

\* C9 witness: a click whose payload claimed a user agent and an ip was
\* persisted with the request's own
C9_Witness ==
    /\ req.op = "track_click" /\ req.arg.claimed.user_agent = "spoofed"
    /\ req.arg.request.user_agent = "ua"
    /\ resp.id # NoId
    /\ store["click"][resp.id].user_agent = "ua"
    /\ store["click"][resp.id].ip = "10.0.0.1"

\* C10: create_offer by a caller holding admin or editor: with no casino of
\* the payload's casino_slug the response is 400 and the offer collection is
\* unchanged; otherwise exactly one offer for that slug is inserted and its
\* identifier returned.
C10_CreateOffer ==
    [][ (HandlerStep /\ req'.op = "create_offer" /\ dbConfigured
            /\ HasRole(req'.token, {"admin", "editor"}))
        => IF ~SlugTaken("casino", req'.arg.casino_slug)
           THEN resp'.status = 400 /\ store'["offer"] = store["offer"]
           ELSE /\ OneInserted("offer")
                /\ Newest("offer").casino_slug = req'.arg.casino_slug
                /\ resp'.id = Newest("offer")._id ]_vars

\* C11: a blog create or update by a caller holding admin or editor that
\* makes a post published, with no published_at in the payload, stamps
\* published_at with the current time when the post has none (create inserts
\* the post, update keeps a stamp already there); every published post has a
\* published_at, and no step clears a published_at once set.
C11_PublishedAt ==
    [][ HandlerStep
        => /\ (req'.op = "admin_create_blog" /\ dbConfigured
                  /\ HasRole(req'.token, {"admin", "editor"})
                  /\ req'.arg.payload.status = "published"
                  /\ req'.arg.payload.published_at = Absent
                  /\ ~SlugTaken("blogpost", req'.arg.payload.slug))
              => /\ OneInserted("blogpost")
                 /\ Newest("blogpost").status = "published"
                 /\ Newest("blogpost").published_at = now
           /\ (req'.op = "admin_update_blog" /\ dbConfigured
                  /\ HasRole(req'.token, {"admin", "editor"})
                  /\ req'.arg.payload.status = "published"
                  /\ req'.arg.payload.published_at = Absent)
              => \A i \in DOMAIN store["blogpost"] :
                    store["blogpost"][i].slug = req'.arg.slug
                    => /\ store'["blogpost"][i].status = "published"
                       /\ store'["blogpost"][i].published_at
                             = IF store["blogpost"][i].published_at = Absent THEN now
                               ELSE store["blogpost"][i].published_at
           /\ \A i \in DOMAIN store'["blogpost"] :
                 store'["blogpost"][i].status = "published"
                 => store'["blogpost"][i].published_at # Absent
           /\ \A i \in DOMAIN store["blogpost"] :
                 store["blogpost"][i].published_at # Absent
                 => /\ i \in DOMAIN store'["blogpost"]
                    /\ store'["blogpost"][i].published_at
                          = store["blogpost"][i].published_at ]_vars

CollectionOps ==
    TokenOps \cup {"login", "seed_admin", "list_blogs", "get_blog", "test_database"}

\* C13: the connection handle is established at most once; once it is
\* established, the API layer's db is that same handle, no operation that
\* goes through collection() answers 503 "Database not initialized", and the
\* health check reports the database connected.
C13_OneHandle ==
    [][ HandlerStep
        => /\ database_db # NoHandle => database_db' = database_db
           /\ database_db' # NoHandle => main_db' = database_db'
           /\ (database_db # NoHandle /\ req'.op \in CollectionOps)
              => /\ resp'.status # 503
                 /\ req'.op = "test_database" => resp'.body.database = "connected" ]_vars

====
